---- MODULE Spec2Model ----
(***************************************************************************)
(* Storage-layout core of SlotSurgeon:                                     *)
(*   SlotCalculator.calculateSlots   (src/core/slot-mapper/slot-calculator)*)
(*   CollisionDetector.compare       (src/core/slot-mapper/collision-      *)
(*                                    detector, here src/unnamed/part_009) *)
(*   UpgradeAnalyzer.analyze         (src/core/slot-mapper/upgrade-analyzer)*)
(*   CollisionDetector.detectCollisions (overlap within one mapping)       *)
(* All are pure functions.  SpecCalc applies calculateSlots and            *)
(* detectCollisions to every bounded contract, flagged declarations        *)
(* included; SpecUpgrade applies compare and analyze to                    *)
(* every pair of bounded mappings, calculator-produced or hand-built the   *)
(* way the unit test's createMockMapping builds them.                      *)
(***************************************************************************)
EXTENDS Integers, Sequences, FiniteSets, TLC

VARIABLES contract, mapping, detected, v1, v2, report, analysis, repeated

vars == <<contract, mapping, detected, v1, v2, report, analysis, repeated>>

(***************************************************************************)
(* Bounds.                                                                 *)
(***************************************************************************)
MaxDecl == 4          \* state variables of a contract given to SpecCalc
MaxUpgradeVars == 3   \* state variables of a contract version in SpecUpgrade
MaxMockVars == 2      \* variables of a hand-built mapping
MaxSlot == 1          \* greatest slot index of a hand-built variable
FarSlot == 6          \* slot of the hand-built variables far from the others

SLOT_SIZE == 32

(***************************************************************************)
(* Generic sequence helpers (Array.prototype.filter/map/reduce, Math.max). *)
(***************************************************************************)
Range(s) == {s[i] : i \in 1..Len(s)}

SeqsUpTo(S, n) == UNION {[1..k -> S] : k \in 0..n}

RECURSIVE SumSizes(_)
SumSizes(s) == IF s = <<>> THEN 0 ELSE Head(s).size + SumSizes(Tail(s))

MaxOf(S) == CHOOSE x \in S : \A y \in S : y <= x

Max2(a, b) == IF a >= b THEN a ELSE b

Min2(a, b) == IF a <= b THEN a ELSE b

\* the distinct elements of s in order of first occurrence: the key order of
\* a JS Map built from s
RECURSIVE Distinct(_)
Distinct(s) ==
  IF s = <<>> THEN <<>>
  ELSE LET init == Distinct(SubSeq(s, 1, Len(s) - 1))
           last == s[Len(s)]
       IN IF last \in Range(init) THEN init ELSE Append(init, last)

RECURSIVE SortedSeq(_)
SortedSeq(S) ==
  IF S = {} THEN <<>>
  ELSE LET m == CHOOSE x \in S : \A y \in S : x <= y
       IN <<m>> \o SortedSeq(S \ {m})

RECURSIVE Flatten(_)
Flatten(ss) == IF ss = <<>> THEN <<>> ELSE Head(ss) \o Flatten(Tail(ss))

(***************************************************************************)
(* SlotCalculator                                                          *)
(***************************************************************************)
\* Type names are opaque strings.  The two substring tests of getTypeSize
\* are decided on the type names the model uses.
ArrayTypeNames == {"uint8[]", "uint256[]", "address[]"}

MappingTypeNames == {"mapping(address => uint256)", "mapping(address => bool)"}

sizeMap ==
  [t \in {"bool", "uint8", "int8", "uint16", "int16", "uint32", "int32",
          "uint64", "int64", "uint128", "int128", "uint256", "int256",
          "uint", "int", "address", "bytes1", "bytes2", "bytes4", "bytes8",
          "bytes16", "bytes32", "string", "bytes"} |->
     CASE t \in {"bool", "uint8", "int8", "bytes1"} -> 1
       [] t \in {"uint16", "int16", "bytes2"} -> 2
       [] t \in {"uint32", "int32", "bytes4"} -> 4
       [] t \in {"uint64", "int64", "bytes8"} -> 8
       [] t \in {"uint128", "int128", "bytes16"} -> 16
       [] t = "address" -> 20
       [] OTHER -> 32]

\* the mutation of a plausible slip: a type name the table does not hold is
\* sized 0
getTypeSizeDefaultZero(typeName) ==
  IF typeName \in ArrayTypeNames THEN 32
  ELSE IF typeName \in MappingTypeNames THEN 32
  ELSE IF typeName \in DOMAIN sizeMap THEN sizeMap[typeName]
  ELSE 0

getTypeSize(typeName) ==
  IF typeName \in ArrayTypeNames THEN 32
  ELSE IF typeName \in MappingTypeNames THEN 32
  ELSE IF typeName \in DOMAIN sizeMap THEN sizeMap[typeName]
  ELSE 32

\* the mutation of a plausible slip: the slot is never closed before a
\* variable that does not fit
NoFitNever(currentOffset, size) == FALSE

\* the mutation of a plausible slip: a variable that fills the slot to its
\* last byte is taken not to fit
NoFitAtExactFit(currentOffset, size) == currentOffset + size >= SLOT_SIZE

\* line 15: the variable does not fit in what is left of the current slot
NoFit(currentOffset, size) == currentOffset + size > SLOT_SIZE

\* the mutation of a plausible slip: only a variable behind another one
\* counts as packed
IsPackedByOffsetOnly(offset, size) == offset > 0

\* line 27: packed: currentOffset > 0 || currentOffset + size < 32
IsPacked(offset, size) == offset > 0 \/ offset + size < SLOT_SIZE

\* One iteration of the forEach of calculateSlots; c is the cursor
\* [variables, currentSlot, currentOffset].
PlaceVariable(c, variable) ==
  LET size == getTypeSize(variable.typeName)
      slot == IF NoFit(c.currentOffset, size) THEN c.currentSlot + 1
              ELSE c.currentSlot
      offset == IF NoFit(c.currentOffset, size) THEN 0 ELSE c.currentOffset
      sv == [name |-> variable.name,
             type |-> variable.typeName,
             slot |-> slot,
             offset |-> offset,
             size |-> size,
             isStateVariable |-> TRUE,
             packed |-> IsPacked(offset, size)]
      next == offset + size
  IN [variables |-> Append(c.variables, sv),
      currentSlot |-> IF next >= SLOT_SIZE THEN slot + 1 ELSE slot,
      currentOffset |-> IF next >= SLOT_SIZE THEN 0 ELSE next]

RECURSIVE PlaceAll(_, _)
PlaceAll(c, stateVariables) ==
  IF stateVariables = <<>> THEN c
  ELSE PlaceAll(PlaceVariable(c, Head(stateVariables)), Tail(stateVariables))

\* the mutation of a plausible slip: every occupied slot is listed
PackedSlotsOfOccupied(variables) ==
  Distinct([i \in 1..Len(variables) |-> variables[i].slot])

\* slots in order of first occurrence that hold more than one variable
PackedSlotsOf(variables) ==
  LET slotSeq == Distinct([i \in 1..Len(variables) |-> variables[i].slot])
      Packed(s) == Cardinality({i \in 1..Len(variables) : variables[i].slot = s}) > 1
  IN SelectSeq(slotSeq, Packed)

\* the mutation of a plausible slip: slots are counted from 1
StartCursorSlotOne == [variables |-> <<>>, currentSlot |-> 1, currentOffset |-> 0]

\* lines 6-8: the cursor at the start of a call
StartCursor == [variables |-> <<>>, currentSlot |-> 0, currentOffset |-> 0]

calculateSlots(c) ==
  LET variables == PlaceAll(StartCursor, c.stateVariables).variables
  IN [contractName |-> c.name,
      variables |-> variables,
      totalSlots |-> IF Len(variables) > 0
                     THEN MaxOf({variables[i].slot : i \in 1..Len(variables)}) + 1
                     ELSE 0,
      packedSlots |-> PackedSlotsOf(variables)]

\* the efficiency of the calculator itself, in percent as the quotient
\* num/den: a mapping without slots counts as fully efficient
calculatePackingEfficiency(m) ==
  IF m.totalSlots = 0 THEN [kind |-> "finite", num |-> 100, den |-> 1]
  ELSE [kind |-> "finite", num |-> SumSizes(m.variables) * 100,
        den |-> m.totalSlots * SLOT_SIZE]

(***************************************************************************)
(* Hand-built mappings: createMockMapping of the CollisionDetector test.   *)
(***************************************************************************)
createMockMapping(name, variables) ==
  [contractName |-> name,
   variables |-> variables,
   totalSlots |-> MaxOf({variables[i].slot : i \in 1..Len(variables)}) + 1,
   packedSlots |-> <<>>]

(***************************************************************************)
(* CollisionDetector.compare                                               *)
(***************************************************************************)
\* the mutation of a plausible slip: the key is the name alone
byKeyNameOnly(v) == <<v.name>>

\* `${v.name}|${v.type}`: names are identifiers and contain no '|', so two
\* keys are equal exactly when name and type are both equal.
byKey(v) == <<v.name, v.type>>

\* new Map(variables.map(v => [byKey(v), v])): keys in order of first
\* insertion, each key bound to the last variable inserted under it.
MapKeys(variables) == Distinct([i \in 1..Len(variables) |-> byKey(variables[i])])

MapHas(variables, k) == \E i \in 1..Len(variables) : byKey(variables[i]) = k

MapGet(variables, k) ==
  variables[MaxOf({i \in 1..Len(variables) : byKey(variables[i]) = k})]

IsMovedAlways(var1, var2) == TRUE

\* line 63
IsMoved(var1, var2) == var2.slot # var1.slot \/ var2.offset # var1.offset

MovedEntryOld(var1, var2) == var1

\* line 64: the variable pushed to moved is the one of v2
MovedEntry(var1, var2) == var2

RemovedOf(vars1, vars2) ==
  LET Gone(k) == ~MapHas(vars2, k)
      ks == SelectSeq(MapKeys(vars1), Gone)
  IN [i \in 1..Len(ks) |-> MapGet(vars1, ks[i])]

MovedOf(vars1, vars2) ==
  LET Shifted(k) == MapHas(vars2, k) /\ IsMoved(MapGet(vars1, k), MapGet(vars2, k))
      ks == SelectSeq(MapKeys(vars1), Shifted)
  IN [i \in 1..Len(ks) |-> MovedEntry(MapGet(vars1, ks[i]), MapGet(vars2, ks[i]))]

AddedOfWrongMap(vars1, vars2) ==
  LET Fresh(k) == ~MapHas(vars2, k)
      ks == SelectSeq(MapKeys(vars2), Fresh)
  IN [i \in 1..Len(ks) |-> MapGet(vars2, ks[i])]

\* lines 70-74
AddedOf(vars1, vars2) ==
  LET Fresh(k) == ~MapHas(vars1, k)
      ks == SelectSeq(MapKeys(vars2), Fresh)
  IN [i \in 1..Len(ks) |-> MapGet(vars2, ks[i])]

\* occupancy(mapping)[slot], [] for a slot the mapping does not use
occupancy(m, slot) ==
  LET InSlot(v) == v.slot = slot IN SelectSeq(m.variables, InSlot)

\* Object.keys of an object with integer keys lists them in ascending order
OccupiedSlots(m) == SortedSeq({m.variables[i].slot : i \in 1..Len(m.variables)})

SkipPairNever(movedKeys, a, b) == FALSE

\* line 98
SkipPair(movedKeys, a, b) == byKey(a) \in movedKeys \/ byKey(b) \in movedKeys

hasOverlapWholeSlot(a, b) == TRUE

\* lines 103-108
hasOverlap(a, b) == a.offset < b.offset + b.size /\ b.offset < a.offset + a.size

IsDifferentAlways(a, b) == TRUE

\* line 115
IsDifferent(a, b) == ~(a.name = b.name) \/ ~(a.type = b.type)

\* the mutation of a plausible slip: the range ends at the byte after the
\* last common one
CollisionRangeEndExclusive(slot, a, b) ==
  [slot |-> slot,
   range |-> <<Max2(a.offset, b.offset),
               Min2(a.offset + a.size, b.offset + b.size)>>,
   v1 |-> a,
   v2 |-> b,
   reason |-> IF ~(a.name = b.name) THEN "different variables occupy same bytes"
              ELSE "same variable has different type"]

Collision(slot, a, b) ==
  [slot |-> slot,
   range |-> <<Max2(a.offset, b.offset),
               Min2(a.offset + a.size - 1, b.offset + b.size - 1)>>,
   v1 |-> a,
   v2 |-> b,
   reason |-> IF ~(a.name = b.name) THEN "different variables occupy same bytes"
              ELSE "same variable has different type"]

CollisionsOf(m1, m2, moved) ==
  LET slots == Distinct(OccupiedSlots(m1) \o OccupiedSlots(m2))
      movedKeys == {byKey(moved[i]) : i \in 1..Len(moved)}
      Pair(slot, a, b) ==
        IF SkipPair(movedKeys, a, b) THEN <<>>
        ELSE IF hasOverlap(a, b) /\ IsDifferent(a, b) THEN <<Collision(slot, a, b)>>
        ELSE <<>>
      Row(slot, a) ==
        LET list2 == occupancy(m2, slot)
        IN Flatten([j \in 1..Len(list2) |-> Pair(slot, a, list2[j])])
      InSlot(slot) ==
        LET list1 == occupancy(m1, slot)
        IN Flatten([i \in 1..Len(list1) |-> Row(slot, list1[i])])
  IN Flatten([n \in 1..Len(slots) |-> InSlot(slots[n])])

IsUnsafeWithRemoved(moved, collisions, added, removed) ==
  Len(moved) > 0 \/ Len(collisions) > 0 \/ Len(removed) > 0

\* line 135
IsUnsafe(moved, collisions, added, removed) == Len(moved) > 0 \/ Len(collisions) > 0

\* the mutation of a plausible slip: the array of collisions is shared by
\* the calls and still holds what the call before left in it
CollisionsLeftOver ==
  IF "none" \in DOMAIN report THEN <<>> ELSE report.collisions

\* line 46: the array of collisions is created by each call
NewCollisions == <<>>

compare(m1, m2) ==
  LET moved == MovedOf(m1.variables, m2.variables)
      removed == RemovedOf(m1.variables, m2.variables)
      added == AddedOf(m1.variables, m2.variables)
      collisions == NewCollisions \o CollisionsOf(m1, m2, moved)
  IN [contract |-> m1.contractName,
      collisions |-> collisions,
      moved |-> moved,
      added |-> added,
      removed |-> removed,
      safe |-> ~IsUnsafe(moved, collisions, added, removed)]

(***************************************************************************)
(* CollisionDetector.detect: the overlap check within one mapping.         *)
(***************************************************************************)
\* the Map from slot to the variables of that slot, as the sequence of its
\* entries in insertion order
groupVariablesBySlot(variables) ==
  LET slotSeq == Distinct([i \in 1..Len(variables) |-> variables[i].slot])
  IN [k \in 1..Len(slotSeq) |->
        LET InSlot(v) == v.slot = slotSeq[k]
        IN [slot |-> slotSeq[k], variables |-> SelectSeq(variables, InSlot)]]

calculateSeverity(variables, totalSize) ==
  IF totalSize > 64 THEN "critical"
  ELSE IF totalSize > 48 THEN "high"
  ELSE IF Len(variables) > 3 THEN "medium"
  ELSE "low"

\* the mutation of a plausible slip: a slot filled to its last byte counts
\* as overfull
SlotOverfullAtFull(totalSize) == totalSize >= SLOT_SIZE

\* const hasOverlap = totalSize > 32
SlotOverfull(totalSize) == totalSize > SLOT_SIZE

\* the StorageCollision of the slot as a one-element sequence, or <<>> for
\* null
analyzeSlotCollision(slot, variables) ==
  LET totalSize == SumSizes(variables)
  IN IF Len(variables) <= 1 THEN <<>>
     ELSE IF ~SlotOverfull(totalSize) THEN <<>>
     ELSE << [id |-> <<"collision_slot", slot>>,
              type |-> "variable_overlap",
              severity |-> calculateSeverity(variables, totalSize),
              slot |-> slot,
              variables |-> [i \in 1..Len(variables) |->
                               [name |-> variables[i].name, type |-> variables[i].type,
                                size |-> variables[i].size, offset |-> variables[i].offset]],
              description |-> <<"Multiple variables overlap in slot", slot>>,
              gasImpact |-> Len(variables) * 20000] >>

detect(slotMapping) ==
  LET slotGroups == groupVariablesBySlot(slotMapping.variables)
  IN Flatten([k \in 1..Len(slotGroups) |->
                IF Len(slotGroups[k].variables) > 1
                THEN analyzeSlotCollision(slotGroups[k].slot, slotGroups[k].variables)
                ELSE <<>>])

\* calculateSlots does not throw, so the catch is never entered
detectCollisions(contracts) ==
  Flatten([n \in 1..Len(contracts) |->
             LET contractCollisions == detect(calculateSlots(contracts[n]))
             IN [i \in 1..Len(contractCollisions) |->
                   [contractCollisions[i] EXCEPT
                      !.description = <<"Storage collision in", contracts[n].name, @>>]]])

(***************************************************************************)
(* UpgradeAnalyzer.analyze                                                 *)
(***************************************************************************)
\* An optional field (oldVariable?) is a sequence of length 0 or 1.
Change(type, variable, oldVariable, severity) ==
  [type |-> type, variable |-> variable, oldVariable |-> oldVariable,
   severity |-> severity]

\* new Map(variables.map(v => [v.name, v])): as MapKeys/MapGet, by name alone
NameKeys(variables) == Distinct([i \in 1..Len(variables) |-> variables[i].name])

NameHas(variables, n) == \E i \in 1..Len(variables) : variables[i].name = n

NameGet(variables, n) ==
  variables[MaxOf({i \in 1..Len(variables) : variables[i].name = n})]

TypeChangeSameSlotOnly(v1Var, v2Var) ==
  v1Var.type # v2Var.type /\ v1Var.slot = v2Var.slot

\* line 130, for a name that v1NameMap holds
IsTypeChange(v1Var, v2Var) == v1Var.type # v2Var.type

TypeChangesOf(vars1, vars2) ==
  LET Retyped(n) == NameHas(vars1, n) /\ IsTypeChange(NameGet(vars1, n), NameGet(vars2, n))
      ns == SelectSeq(NameKeys(vars2), Retyped)
  IN [i \in 1..Len(ns) |->
        Change("typeChanged", NameGet(vars2, ns[i]), <<NameGet(vars1, ns[i])>>, "critical")]

\* the mutation of a plausible slip: the loop over removed is left out
identifyChangesWithoutRemoved(m1, m2, collisionReport) ==
  LET cs == collisionReport.collisions
      mv == collisionReport.moved
      ad == collisionReport.added
  IN [i \in 1..Len(cs) |-> Change("collision", cs[i].v2, <<cs[i].v1>>, "critical")]
     \o [i \in 1..Len(mv) |->
           Change("moved", mv[i], <<MapGet(m1.variables, byKey(mv[i]))>>, "critical")]
     \o [i \in 1..Len(ad) |-> Change("added", ad[i], <<>>, "safe")]
     \o TypeChangesOf(m1.variables, m2.variables)

\* the mutation of a plausible slip: a moved variable is a warning
identifyChangesMovedAsWarning(m1, m2, collisionReport) ==
  LET cs == collisionReport.collisions
      mv == collisionReport.moved
      rm == collisionReport.removed
      ad == collisionReport.added
  IN [i \in 1..Len(cs) |-> Change("collision", cs[i].v2, <<cs[i].v1>>, "critical")]
     \o [i \in 1..Len(mv) |->
           Change("moved", mv[i], <<MapGet(m1.variables, byKey(mv[i]))>>, "warning")]
     \o [i \in 1..Len(rm) |-> Change("removed", rm[i], <<>>, "warning")]
     \o [i \in 1..Len(ad) |-> Change("added", ad[i], <<>>, "safe")]
     \o TypeChangesOf(m1.variables, m2.variables)

identifyChanges(m1, m2, collisionReport) ==
  LET cs == collisionReport.collisions
      mv == collisionReport.moved
      rm == collisionReport.removed
      ad == collisionReport.added
  IN [i \in 1..Len(cs) |-> Change("collision", cs[i].v2, <<cs[i].v1>>, "critical")]
     \o [i \in 1..Len(mv) |->
           Change("moved", mv[i], <<MapGet(m1.variables, byKey(mv[i]))>>, "critical")]
     \o [i \in 1..Len(rm) |-> Change("removed", rm[i], <<>>, "warning")]
     \o [i \in 1..Len(ad) |-> Change("added", ad[i], <<>>, "safe")]
     \o TypeChangesOf(m1.variables, m2.variables)

SeverityCount(changes, severity) ==
  LET Is(c) == c.severity = severity IN Len(SelectSeq(changes, Is))

CRITICAL_PENALTY == 40

WARNING_PENALTY == 15

ScoreUnclamped(criticalCount, warningCount) ==
  100 - criticalCount * CRITICAL_PENALTY - warningCount * WARNING_PENALTY

\* lines 153-160
Score(criticalCount, warningCount) ==
  Max2(0, (100 - criticalCount * CRITICAL_PENALTY) - warningCount * WARNING_PENALTY)

LevelUnsafeAtTwo(criticalCount, warningCount) ==
  IF criticalCount > 0 THEN "critical"
  ELSE IF warningCount >= 2 THEN "unsafe"
  ELSE IF warningCount > 0 THEN "caution"
  ELSE "safe"

\* lines 162-174
Level(criticalCount, warningCount) ==
  IF criticalCount > 0 THEN "critical"
  ELSE IF warningCount > 2 THEN "unsafe"
  ELSE IF warningCount > 0 THEN "caution"
  ELSE "safe"

assessCompatibility(changes, collisionReport) ==
  LET criticalCount == SeverityCount(changes, "critical")
      warningCount == SeverityCount(changes, "warning")
  IN [score |-> Score(criticalCount, warningCount),
      level |-> Level(criticalCount, warningCount)]

\* (usedBytes / totalBytes) * 100 as a JS number: the exact quotient
\* num/den when totalBytes > 0; 0/0 is NaN and x/0 with x > 0 is Infinity.
calculateEfficiency(m) ==
  LET usedBytes == SumSizes(m.variables)
      totalBytes == m.totalSlots * SLOT_SIZE
  IN IF totalBytes = 0
     THEN [kind |-> IF usedBytes = 0 THEN "NaN" ELSE "Infinity", num |-> 0, den |-> 1]
     ELSE [kind |-> "finite", num |-> usedBytes * 100, den |-> totalBytes]

\* the mutation of a plausible slip: any drop of the efficiency counts
EfficiencyDroppedAtAll(e1, e2) ==
  CASE e1.kind = "NaN" \/ e2.kind = "NaN" -> FALSE
    [] e1.kind = "Infinity" /\ e2.kind = "Infinity" -> FALSE
    [] e1.kind = "Infinity" -> TRUE
    [] e2.kind = "Infinity" -> FALSE
    [] OTHER -> e2.num * e1.den < e1.num * e2.den

\* v2Efficiency < v1Efficiency - 10; a comparison with NaN is false
EfficiencyDropped(e1, e2) ==
  CASE e1.kind = "NaN" \/ e2.kind = "NaN" -> FALSE
    [] e1.kind = "Infinity" /\ e2.kind = "Infinity" -> FALSE
    [] e1.kind = "Infinity" -> TRUE
    [] e2.kind = "Infinity" -> FALSE
    [] OTHER -> e2.num * e1.den < (e1.num - 10 * e1.den) * e2.den

SLOT_GROWTH_LIMIT == 5

\* the recommendation strings, by what each one says
generateRecommendations(changes, m1, m2) ==
  LET criticalCount == SeverityCount(changes, "critical")
      warningCount == SeverityCount(changes, "warning")
      issues ==
        (IF criticalCount > 0 THEN <<"doNotDeploy", "newContract">> ELSE <<>>)
        \o (IF warningCount > 0 THEN <<"testThoroughly">> ELSE <<>>)
        \o (IF EfficiencyDropped(calculateEfficiency(m1), calculateEfficiency(m2))
            THEN <<"reorderVariables">> ELSE <<>>)
        \o (IF m2.totalSlots - m1.totalSlots > SLOT_GROWTH_LIMIT
            THEN <<"gasCost">> ELSE <<>>)
  IN IF Len(issues) = 0 THEN <<"appearsSafe">> ELSE issues

\* Math.round(x) for the quotient x = n/d with d > 0: floor(x + 1/2)
RoundQuotient(n, d) == (2 * n + d) \div (2 * d)

\* the mutation of a plausible slip: the wasted bytes of v2 are subtracted
\* from those of v1
calculateStorageGrowthWasteSwapped(m1, m2) ==
  LET v1WastedBytes == m1.totalSlots * SLOT_SIZE - SumSizes(m1.variables)
      v2WastedBytes == m2.totalSlots * SLOT_SIZE - SumSizes(m2.variables)
      e1 == calculateEfficiency(m1)
      e2 == calculateEfficiency(m2)
  IN [slotsAdded |-> m2.totalSlots - m1.totalSlots,
      bytesWasted |-> v1WastedBytes - v2WastedBytes,
      efficiencyChange |->
        IF e1.kind = "finite" /\ e2.kind = "finite"
        THEN [kind |-> "finite",
              hundredths |-> RoundQuotient(100 * (e2.num * e1.den - e1.num * e2.den),
                                           e1.den * e2.den)]
        ELSE [kind |-> "NaN", hundredths |-> 0]]

\* efficiencyChange in hundredths of a percentage point, or NaN
calculateStorageGrowth(m1, m2) ==
  LET v1UsedBytes == SumSizes(m1.variables)
      v2UsedBytes == SumSizes(m2.variables)
      v1WastedBytes == m1.totalSlots * SLOT_SIZE - v1UsedBytes
      v2WastedBytes == m2.totalSlots * SLOT_SIZE - v2UsedBytes
      e1 == calculateEfficiency(m1)
      e2 == calculateEfficiency(m2)
  IN [slotsAdded |-> m2.totalSlots - m1.totalSlots,
      bytesWasted |-> v2WastedBytes - v1WastedBytes,
      efficiencyChange |->
        IF e1.kind = "finite" /\ e2.kind = "finite"
        THEN [kind |-> "finite",
              hundredths |-> RoundQuotient(100 * (e2.num * e1.den - e1.num * e2.den),
                                           e1.den * e2.den)]
        ELSE [kind |-> "NaN", hundredths |-> 0]]

Summary(m) ==
  [totalSlots |-> m.totalSlots, variables |-> Len(m.variables),
   packedSlots |-> Len(m.packedSlots)]

analyze(m1, m2) ==
  LET collisionReport == compare(m1, m2)
      changes == identifyChanges(m1, m2, collisionReport)
  IN [contractName |-> m1.contractName,
      v1Summary |-> Summary(m1),
      v2Summary |-> Summary(m2),
      changes |-> changes,
      compatibility |-> assessCompatibility(changes, collisionReport),
      recommendations |-> generateRecommendations(changes, m1, m2),
      collisionReport |-> collisionReport,
      storageGrowth |-> calculateStorageGrowth(m1, m2)]

(***************************************************************************)
(* Inputs.                                                                 *)
(***************************************************************************)
\* type names of the contracts of SpecCalc: every size of the table, an
\* array, a mapping and two names the table does not hold
TypeNames ==
  {"bool", "uint8", "uint128", "address", "uint256", "uint8[]",
   "mapping(address => uint256)", "bytes3"}

VarNames == <<"a", "b", "c", "d", "e", "f">>

StateVariable(name, typeName) ==
  [name |-> name, typeName |-> typeName, isConstant |-> FALSE, isImmutable |-> FALSE]

ContractAST(name, stateVariables) == [name |-> name, stateVariables |-> stateVariables]

\* the i-th declared variable is named VarNames[i]
Contracts ==
  {ContractAST("C", [i \in 1..Len(ts) |-> StateVariable(VarNames[i], ts[i])]) :
     ts \in SeqsUpTo(TypeNames, MaxDecl)}

\* a declaration with the flags of its mutability: constant, immutable or
\* neither
Mutabilities == {"mutable", "constant", "immutable"}

FlaggedVariable(name, typeName, mutability) ==
  [StateVariable(name, typeName) EXCEPT !.isConstant = (mutability = "constant"),
                                        !.isImmutable = (mutability = "immutable")]

FlaggedTypeNames == {"uint128", "address", "uint256"}

IsFlagged(variable) == variable.isConstant \/ variable.isImmutable

\* contracts that declare at least one constant or immutable variable
FlaggedContracts ==
  {c \in {ContractAST("C", [i \in 1..Len(ds) |->
                              FlaggedVariable(VarNames[i], ds[i][1], ds[i][2])]) :
            ds \in SeqsUpTo(FlaggedTypeNames \X Mutabilities, MaxDecl)} :
     \E i \in 1..Len(c.stateVariables) : IsFlagged(c.stateVariables[i])}

\* contract versions of SpecUpgrade: distinct names, in any order
UpgradeNames == {"a", "b", "c"}

UpgradeTypeNames == {"uint128", "uint256"}

UniqueNames(s) == \A i, j \in 1..Len(s) : s[i].name = s[j].name => i = j

UpgradeContracts ==
  {ContractAST("C", ds) :
     ds \in {s \in SeqsUpTo({StateVariable(n, t) : n \in UpgradeNames, t \in UpgradeTypeNames},
                            MaxUpgradeVars) : UniqueNames(s)}}

CalcMappings == {calculateSlots(c) : c \in UpgradeContracts}

\* hand-built variables: any slot and either half of it, sized by the type
\* table as the fixtures of the tests are
MockNames == {"a", "b"}

MockOffsets == {0, 16}

MockVariables ==
  {[name |-> n, type |-> t, slot |-> s, offset |-> o, size |-> getTypeSize(t),
    isStateVariable |-> TRUE] :
     n \in MockNames, t \in UpgradeTypeNames, s \in 0..MaxSlot, o \in MockOffsets}

\* hand-built variables that fill a slot several slots from the others
FarVariables ==
  {[name |-> n, type |-> "uint256", slot |-> FarSlot, offset |-> 0,
    size |-> getTypeSize("uint256"), isStateVariable |-> TRUE] : n \in MockNames}

MockMappings ==
  {createMockMapping("C", vs) :
     vs \in {s \in SeqsUpTo(MockVariables \cup FarVariables, MaxMockVars) :
               Len(s) > 0 /\ UniqueNames(s)}}

AllMappings == CalcMappings \cup MockMappings

(***************************************************************************)
(* State machine.                                                          *)
(***************************************************************************)
None == [none |-> TRUE]

IsSome(r) == "none" \notin DOMAIN r

\* SpecCalc: a contract model, then calculateSlots and detectCollisions
InitCalc ==
  /\ contract \in Contracts \cup FlaggedContracts
  /\ mapping = None
  /\ detected = None
  /\ v1 = None /\ v2 = None /\ report = None /\ analysis = None
  /\ repeated = FALSE

CalculateSlots ==
  /\ IsSome(contract)
  /\ mapping = None
  /\ mapping' = calculateSlots(contract)
  /\ UNCHANGED <<contract, detected, v1, v2, report, analysis, repeated>>

\* detectCollisions of the one contract
DetectCollisions ==
  /\ IsSome(contract)
  /\ detected = None
  /\ detected' = [collisions |-> detectCollisions(<<contract>>)]
  /\ UNCHANGED <<contract, mapping, v1, v2, report, analysis, repeated>>

NextCalc == CalculateSlots \/ DetectCollisions

SpecCalc == InitCalc /\ [][NextCalc]_vars

\* SpecUpgrade: two mappings, then compare or analyze, then one of the
\* calls once more
InitUpgrade ==
  /\ v1 \in AllMappings
  /\ v2 \in AllMappings
  /\ report = None /\ analysis = None
  /\ contract = None /\ mapping = None /\ detected = None
  /\ repeated = FALSE

Compare ==
  /\ IsSome(v1) /\ report = None /\ analysis = None
  /\ report' = compare(v1, v2)
  /\ UNCHANGED <<contract, mapping, detected, v1, v2, analysis, repeated>>

Analyze ==
  /\ IsSome(v1) /\ report = None /\ analysis = None
  /\ analysis' = analyze(v1, v2)
  /\ UNCHANGED <<contract, mapping, detected, v1, v2, report, repeated>>

\* a second call of compare with the arguments of the first
CompareAgain ==
  /\ IsSome(report) /\ ~repeated
  /\ report' = compare(v1, v2)
  /\ repeated' = TRUE
  /\ UNCHANGED <<contract, mapping, detected, v1, v2, analysis>>

\* a second call of analyze with the arguments of the first
AnalyzeAgain ==
  /\ IsSome(analysis) /\ ~repeated
  /\ analysis' = analyze(v1, v2)
  /\ repeated' = TRUE
  /\ UNCHANGED <<contract, mapping, detected, v1, v2, report>>

\* after compare, a second call of calculateSlots with the contract version
\* that v1 was calculated from
CalculateSlotsAgain ==
  /\ IsSome(report) /\ ~repeated
  /\ v1 \in CalcMappings
  /\ contract' = CHOOSE c \in UpgradeContracts : calculateSlots(c) = v1
  /\ mapping' = calculateSlots(contract')
  /\ repeated' = TRUE
  /\ UNCHANGED <<detected, v1, v2, report, analysis>>

NextUpgrade ==
  Compare \/ Analyze \/ CompareAgain \/ AnalyzeAgain \/ CalculateSlotsAgain

SpecUpgrade == InitUpgrade /\ [][NextUpgrade]_vars

Init == InitCalc

Next == NextCalc

Spec == SpecCalc

(***************************************************************************)
(* Properties.                                                             *)
(***************************************************************************)
Idx(m) == 1..Len(m.variables)

SlotsOf(m) == {m.variables[i].slot : i \in Idx(m)}

\* sum of the sizes of the variables of m assigned to slot s
SlotSum(m, s) ==
  LET InSlot(v) == v.slot = s IN SumSizes(SelectSeq(m.variables, InSlot))

\* two variables occupy a common byte of the same slot
Overlap(a, b) ==
  a.slot = b.slot /\ a.offset < b.offset + b.size /\ b.offset < a.offset + a.size

SameIdentity(a, b) == a.name = b.name /\ a.type = b.type

SamePlace(a, b) == a.slot = b.slot /\ a.offset = b.offset

\* no two variables of m that differ in name or type share a byte
SelfOverlapFree(m) ==
  \A i, j \in Idx(m) :
    Overlap(m.variables[i], m.variables[j]) => SameIdentity(m.variables[i], m.variables[j])

AllListsEmpty(r) ==
  r.collisions = <<>> /\ r.moved = <<>> /\ r.added = <<>> /\ r.removed = <<>>

\* C1: in the mapping calculateSlots returns, the sizes of the variables
\* assigned to any one slot sum to at most 32 bytes.
C1_SlotSumAtMost32 ==
  IsSome(mapping) => \A s \in SlotsOf(mapping) : SlotSum(mapping, s) <= 32

\* a slot is shared, and a variable that did not fit opened the next slot
C1_Witness ==
  /\ IsSome(mapping)
  /\ \E i \in Idx(mapping) : mapping.variables[i].offset > 0
  /\ \E i \in Idx(mapping) :
       /\ i + 1 \in Idx(mapping)
       /\ mapping.variables[i].offset + mapping.variables[i].size < 32
       /\ mapping.variables[i + 1].slot = mapping.variables[i].slot + 1
       /\ mapping.variables[i + 1].size < 32

\* C2 as stated: compare(M, M) is safe with all four lists empty for any
\* mapping M, calculator-produced or hand-built.
C2_CompareReflexive ==
  (IsSome(report) /\ v1 = v2) => (report.safe /\ AllListsEmpty(report))

\* C2 amended: compare(M, M) is safe with all four lists empty for every
\* mapping M in which no two variables that differ in name or type occupy a
\* common byte of a slot.
C2_CompareReflexiveNoSelfOverlap ==
  (IsSome(report) /\ v1 = v2 /\ SelfOverlapFree(v1)) =>
    (report.safe /\ AllListsEmpty(report))

\* a mapping with two variables in one slot has been compared with itself
C2_Witness ==
  /\ IsSome(report) /\ v1 = v2 /\ SelfOverlapFree(v1)
  /\ \E i, j \in Idx(v1) : i # j /\ v1.variables[i].slot = v1.variables[j].slot

\* v2 holds every variable of v1 at the same name, type, slot and offset
KeepsAll(m1, m2) ==
  \A i \in Idx(m1) : \E j \in Idx(m2) :
    SameIdentity(m1.variables[i], m2.variables[j]) /\ SamePlace(m1.variables[i], m2.variables[j])

\* the variables of v2 that are not variables of v1, in the order of v2
Additional(m1, m2) ==
  LET New(b) == ~\E i \in Idx(m1) :
                   SameIdentity(m1.variables[i], b) /\ SamePlace(m1.variables[i], b)
  IN SelectSeq(m2.variables, New)

\* the additional variables occupy only bytes unused in v1
AdditionalInUnusedBytes(m1, m2) ==
  LET extra == Additional(m1, m2)
  IN \A e \in 1..Len(extra) : \A i \in Idx(m1) : ~Overlap(m1.variables[i], extra[e])

AppendOnly(m1, m2) == KeepsAll(m1, m2) /\ AdditionalInUnusedBytes(m1, m2)

AppendOnlyVerdict(r, m1, m2) ==
  /\ r.safe
  /\ r.moved = <<>> /\ r.collisions = <<>> /\ r.removed = <<>>
  /\ r.added = Additional(m1, m2)

\* C3 as stated: when v2 is v1 plus additional variables in bytes unused in
\* v1, compare is safe, nothing moved, collided or removed, and added is
\* exactly the additional variables.
C3_AppendOnlySafe ==
  (IsSome(report) /\ AppendOnly(v1, v2)) => AppendOnlyVerdict(report, v1, v2)

\* C3 amended: the same, for a v1 in which no two variables that differ in
\* name or type occupy a common byte.
C3_AppendOnlySafeNoSelfOverlap ==
  (IsSome(report) /\ AppendOnly(v1, v2) /\ SelfOverlapFree(v1)) =>
    AppendOnlyVerdict(report, v1, v2)

\* an additional variable was put in the free half of a slot v1 uses
C3_Witness ==
  /\ IsSome(report) /\ AppendOnly(v1, v2) /\ SelfOverlapFree(v1)
  /\ Len(v1.variables) > 0
  /\ LET extra == Additional(v1, v2)
     IN \E e \in 1..Len(extra) : \E i \in Idx(v1) : extra[e].slot = v1.variables[i].slot

\* the declared list a mapping was calculated from
DeclOf(m) == [i \in Idx(m) |-> StateVariable(m.variables[i].name, m.variables[i].type)]

IsCalculated(m) == m = calculateSlots(ContractAST(m.contractName, DeclOf(m)))

\* the declared list of m2 is that of m1 followed by variables with fresh names
DeclAppended(m1, m2) ==
  /\ IsCalculated(m1) /\ IsCalculated(m2)
  /\ Len(m1.variables) <= Len(m2.variables)
  /\ \A i \in Idx(m1) : SameIdentity(m1.variables[i], m2.variables[i])
  /\ \A j \in Idx(m2) : j > Len(m1.variables) =>
       \A i \in Idx(m1) : m2.variables[j].name # m1.variables[i].name

\* C4: when the declared list of v2 is that of v1 followed by variables with
\* fresh names, calculateSlots gives every v1 variable the same slot, offset
\* and size in both versions, and compare is safe with nothing moved or
\* collided and added equal to the appended variables.
C4_AppendedDeclarationsSafe ==
  (IsSome(report) /\ DeclAppended(v1, v2)) =>
    /\ \A i \in Idx(v1) :
         /\ v1.variables[i].slot = v2.variables[i].slot
         /\ v1.variables[i].offset = v2.variables[i].offset
         /\ v1.variables[i].size = v2.variables[i].size
    /\ report.safe /\ report.moved = <<>> /\ report.collisions = <<>>
    /\ report.added = SubSeq(v2.variables, Len(v1.variables) + 1, Len(v2.variables))

\* a variable was appended into the slot the last v1 variable left half empty
C4_Witness ==
  /\ IsSome(report) /\ DeclAppended(v1, v2)
  /\ Len(v1.variables) > 0 /\ Len(v2.variables) > Len(v1.variables)
  /\ v2.variables[Len(v1.variables) + 1].slot = v1.variables[Len(v1.variables)].slot

InSeq(x, s) == \E i \in 1..Len(s) : s[i] = x

HasKey(s, k) == \E i \in 1..Len(s) : byKey(s[i]) = k

\* C5: a variable whose (name, type) is in both versions at a different
\* (slot, offset) is in moved once, with its v2 coordinates, is in neither
\* added nor removed, and the report is not safe.
C5_MovedReported ==
  IsSome(report) =>
    \A i \in Idx(v1) : \A j \in Idx(v2) :
      (SameIdentity(v1.variables[i], v2.variables[j])
         /\ ~SamePlace(v1.variables[i], v2.variables[j])) =>
        /\ Cardinality({n \in 1..Len(report.moved) :
                          byKey(report.moved[n]) = byKey(v2.variables[j])}) = 1
        /\ \A n \in 1..Len(report.moved) :
             byKey(report.moved[n]) = byKey(v2.variables[j]) =>
               SamePlace(report.moved[n], v2.variables[j])
        /\ ~HasKey(report.added, byKey(v2.variables[j]))
        /\ ~HasKey(report.removed, byKey(v2.variables[j]))
        /\ report.safe = FALSE

\* one variable changed place while another disappeared and a third appeared
C5_Witness ==
  /\ IsSome(report)
  /\ \E i \in Idx(v1) : \E j \in Idx(v2) :
       SameIdentity(v1.variables[i], v2.variables[j])
         /\ ~SamePlace(v1.variables[i], v2.variables[j])
  /\ report.added # <<>> /\ report.removed # <<>>

\* C6: safe is false exactly when moved or collisions is non-empty; added
\* and removed do not enter.
C6_SafeIffNoMovedNoCollision ==
  IsSome(report) =>
    (report.safe = FALSE <=> (report.moved # <<>> \/ report.collisions # <<>>))

\* a report with additions and removals that is safe
C6_Witness ==
  IsSome(report) /\ report.added # <<>> /\ report.removed # <<>> /\ report.safe

ReportedCollision(r, a, b) ==
  \E n \in 1..Len(r.collisions) : r.collisions[n].v1 = a /\ r.collisions[n].v2 = b

ClassifiedMoved(r, v) == HasKey(r.moved, byKey(v))

\* C7: a pair (a of v1, b of v2) is in collisions exactly when a and b are
\* in the same slot, their byte ranges overlap, neither key is classified
\* moved, and they differ in name or in type.
C7_CollisionIff ==
  IsSome(report) =>
    /\ \A i \in Idx(v1) : \A j \in Idx(v2) :
         LET a == v1.variables[i]
             b == v2.variables[j]
         IN ReportedCollision(report, a, b) <=>
              /\ a.slot = b.slot
              /\ a.offset < b.offset + b.size /\ b.offset < a.offset + a.size
              /\ ~ClassifiedMoved(report, a) /\ ~ClassifiedMoved(report, b)
              /\ (a.name # b.name \/ a.type # b.type)
    /\ \A n \in 1..Len(report.collisions) :
         InSeq(report.collisions[n].v1, v1.variables)
           /\ InSeq(report.collisions[n].v2, v2.variables)

\* one overlapping pair is a collision, another is passed over because one
\* of its members moved
C7_Witness ==
  /\ IsSome(report) /\ report.collisions # <<>>
  /\ \E i \in Idx(v1) : \E j \in Idx(v2) :
       /\ Overlap(v1.variables[i], v2.variables[j])
       /\ ~SameIdentity(v1.variables[i], v2.variables[j])
       /\ ClassifiedMoved(report, v1.variables[i]) \/ ClassifiedMoved(report, v2.variables[j])

TypeChangedFor(a, b) ==
  {n \in 1..Len(analysis.changes) :
     /\ analysis.changes[n].type = "typeChanged"
     /\ analysis.changes[n].variable = b
     /\ analysis.changes[n].oldVariable = <<a>>}

\* C8: for every name that the two versions declare with different types,
\* analyze emits a typeChanged change of severity critical, wherever the two
\* occurrences sit and whether or not they collide.
C8_TypeChangedCritical ==
  IsSome(analysis) =>
    \A i \in Idx(v1) : \A j \in Idx(v2) :
      (v1.variables[i].name = v2.variables[j].name
         /\ v1.variables[i].type # v2.variables[j].type) =>
        /\ TypeChangedFor(v1.variables[i], v2.variables[j]) # {}
        /\ \A n \in TypeChangedFor(v1.variables[i], v2.variables[j]) :
             analysis.changes[n].severity = "critical"

\* a retyped variable in another slot, with no collision reported
C8_Witness ==
  /\ IsSome(analysis)
  /\ analysis.collisionReport.collisions = <<>>
  /\ \E i \in Idx(v1) : \E j \in Idx(v2) :
       /\ v1.variables[i].name = v2.variables[j].name
       /\ v1.variables[i].type # v2.variables[j].type
       /\ v1.variables[i].slot # v2.variables[j].slot

NumCritical == Cardinality({n \in 1..Len(analysis.changes) :
                              analysis.changes[n].severity = "critical"})

NumWarning == Cardinality({n \in 1..Len(analysis.changes) :
                             analysis.changes[n].severity = "warning"})

\* C9: the score is max(0, 100 - 40 * criticals - 15 * warnings), so it lies
\* between 0 and 100.
C9_Score ==
  IsSome(analysis) =>
    LET raw == 100 - 40 * NumCritical - 15 * NumWarning
    IN /\ analysis.compatibility.score = (IF raw < 0 THEN 0 ELSE raw)
       /\ analysis.compatibility.score \in 0..100

\* the penalties exceed 100 and the score is clamped
C9_Witness ==
  /\ IsSome(analysis)
  /\ NumCritical > 0 /\ NumWarning > 0
  /\ 100 - 40 * NumCritical - 15 * NumWarning < 0
  /\ analysis.compatibility.score = 0

\* C10: the level is critical with any critical change, else unsafe with
\* more than two warnings, else caution with any warning, else safe.
C10_Level ==
  IsSome(analysis) =>
    analysis.compatibility.level =
      (CASE NumCritical >= 1 -> "critical"
         [] NumCritical = 0 /\ NumWarning > 2 -> "unsafe"
         [] NumCritical = 0 /\ NumWarning \in {1, 2} -> "caution"
         [] OTHER -> "safe")

\* three warnings and nothing critical: unsafe
C10_Witness ==
  IsSome(analysis) /\ NumCritical = 0 /\ NumWarning = 3
    /\ analysis.compatibility.level = "unsafe"

(***************************************************************************)
(* Storage growth and recommendations.                                     *)
(***************************************************************************)
\* C11: for every pair of mappings, one without variables and with
\* totalSlots = 0 included, analyze computes the efficiency of each version
\* and storageGrowth.efficiencyChange without dividing by zero allocated
\* bytes: each of the three is a number.
C11_EfficiencyWellDefined ==
  IsSome(analysis) =>
    /\ calculateEfficiency(v1).kind = "finite"
    /\ calculateEfficiency(v2).kind = "finite"
    /\ analysis.storageGrowth.efficiencyChange.kind = "finite"

(***************************************************************************)
(* Placement by the calculator.                                            *)
(***************************************************************************)
\* the cursor before the i-th variable of m: (0, 0) at the start, else the
\* byte after the variable before it, or the start of the next slot when
\* that variable ended its slot
CursorBefore(m, i) ==
  IF i = 1 THEN [slot |-> 0, offset |-> 0]
  ELSE LET p == m.variables[i - 1]
       IN IF p.offset + p.size >= 32 THEN [slot |-> p.slot + 1, offset |-> 0]
          ELSE [slot |-> p.slot, offset |-> p.offset + p.size]

Place(v) == <<v.slot, v.offset, v.size>>

TypesOf(c) == [i \in 1..Len(c.stateVariables) |-> c.stateVariables[i].typeName]

\* C12: calculateSlots places the variables in declaration order with one
\* cursor: a variable whose size fits in the remaining bytes of the current
\* slot goes at the current offset of that slot, any other at offset 0 of
\* the next slot.  uint256, address, bool, uint8 are placed at (0, 0, 32),
\* (1, 0, 20), (1, 20, 1), (1, 21, 1) with totalSlots 2 and packedSlots [1].
C12_SingleCursor ==
  IsSome(mapping) =>
    /\ Len(mapping.variables) = Len(contract.stateVariables)
    /\ \A i \in Idx(mapping) :
         LET v == mapping.variables[i]
             c == CursorBefore(mapping, i)
         IN /\ v.name = contract.stateVariables[i].name
            /\ v.type = contract.stateVariables[i].typeName
            /\ IF v.size <= 32 - c.offset
               THEN v.slot = c.slot /\ v.offset = c.offset
               ELSE v.slot = c.slot + 1 /\ v.offset = 0
    /\ TypesOf(contract) = <<"uint256", "address", "bool", "uint8">> =>
         /\ [i \in 1..4 |-> Place(mapping.variables[i])] =
              << <<0, 0, 32>>, <<1, 0, 20>>, <<1, 20, 1>>, <<1, 21, 1>> >>
         /\ mapping.totalSlots = 2
         /\ mapping.packedSlots = <<1>>

\* the contract of the example, calculated
C12_Witness ==
  /\ IsSome(mapping)
  /\ TypesOf(contract) = <<"uint256", "address", "bool", "uint8">>
  /\ Place(mapping.variables[4]) = <<1, 21, 1>>

\* number of variables of m assigned to slot s
SlotCount(m, s) == Cardinality({i \in Idx(m) : m.variables[i].slot = s})

\* C13: totalSlots is the greatest assigned slot number plus one, and
\* packedSlots lists exactly the slots that hold more than one variable,
\* each once; a contract without variables gives totalSlots 0, no variable
\* and packedSlots [].
C13_TotalAndPackedSlots ==
  IsSome(mapping) =>
    /\ Idx(mapping) # {} =>
         /\ mapping.totalSlots - 1 \in SlotsOf(mapping)
         /\ \A s \in SlotsOf(mapping) : s <= mapping.totalSlots - 1
    /\ Range(mapping.packedSlots) = {s \in SlotsOf(mapping) : SlotCount(mapping, s) > 1}
    /\ \A i, j \in 1..Len(mapping.packedSlots) :
         mapping.packedSlots[i] = mapping.packedSlots[j] => i = j
    /\ contract.stateVariables = <<>> =>
         /\ mapping.totalSlots = 0
         /\ mapping.variables = <<>>
         /\ mapping.packedSlots = <<>>

\* three slots of which the middle one alone is shared
C13_Witness ==
  /\ IsSome(mapping)
  /\ mapping.totalSlots = 3
  /\ mapping.packedSlots = <<1>>
  /\ SlotCount(mapping, 0) = 1 /\ SlotCount(mapping, 1) = 2 /\ SlotCount(mapping, 2) = 1

\* the contract c without its constant and immutable declarations
WithoutFlagged(c) ==
  LET Stored(d) == ~IsFlagged(d)
  IN ContractAST(c.name, SelectSeq(c.stateVariables, Stored))

\* C14: a variable flagged isConstant or isImmutable is excluded from slot
\* assignment: it is not in the mapping calculateSlots returns, and every
\* other variable has the slot and offset it has without the flagged ones.
C14_FlaggedExcluded ==
  IsSome(mapping) =>
    /\ \A i \in 1..Len(contract.stateVariables) :
         IsFlagged(contract.stateVariables[i]) =>
           \A j \in Idx(mapping) :
             mapping.variables[j].name # contract.stateVariables[i].name
    /\ LET stored == calculateSlots(WithoutFlagged(contract))
       IN \A k \in Idx(stored) :
            \E j \in Idx(mapping) :
              /\ mapping.variables[j].name = stored.variables[k].name
              /\ mapping.variables[j].slot = stored.variables[k].slot
              /\ mapping.variables[j].offset = stored.variables[k].offset

\* the declared width N of the type names bytesN
BytesWidth ==
  [t \in {"bytes1", "bytes2", "bytes3", "bytes4", "bytes8", "bytes16",
          "bytes20", "bytes32"} |->
     CASE t = "bytes1" -> 1 [] t = "bytes2" -> 2 [] t = "bytes3" -> 3
       [] t = "bytes4" -> 4 [] t = "bytes8" -> 8 [] t = "bytes16" -> 16
       [] t = "bytes20" -> 20 [] OTHER -> 32]

\* C15: every fixed-size byte array bytesN, 1 <= N <= 32, is sized N bytes;
\* dynamic arrays and mappings are sized 32.
C15_BytesNSizedN ==
  IsSome(mapping) =>
    \A i \in Idx(mapping) :
      LET v == mapping.variables[i]
      IN /\ v.type \in DOMAIN BytesWidth => v.size = BytesWidth[v.type]
         /\ v.type \in ArrayTypeNames \cup MappingTypeNames => v.size = 32

(***************************************************************************)
(* Classification by compare and the change list of analyze.               *)
(***************************************************************************)
\* the keys name|type of the variables of the list s
KeysOf(s) == {byKey(s[i]) : i \in 1..Len(s)}

\* the variable of the list s with the key of x
Twin(s, x) == CHOOSE y \in Range(s) : SameIdentity(y, x)

\* C16: compare partitions the variables by the key name|type: a key of v1
\* alone is in removed, a key of v2 alone is in added, a key of both with
\* another (slot, offset) is in moved with the coordinates of v2, a key of
\* both with the same (slot, offset) is in no list, and no key is in more
\* than one list.
C16_KeyPartition ==
  IsSome(report) =>
    /\ \A a \in Range(v1.variables) :
         byKey(a) \notin KeysOf(v2.variables) =>
           InSeq(a, report.removed)
    /\ \A b \in Range(v2.variables) :
         IF byKey(b) \notin KeysOf(v1.variables)
         THEN InSeq(b, report.added)
         ELSE IF SamePlace(Twin(v1.variables, b), b)
              THEN byKey(b) \notin KeysOf(report.removed) \cup KeysOf(report.added)
                                     \cup KeysOf(report.moved)
              ELSE InSeq(b, report.moved)
    /\ KeysOf(report.removed) \cap KeysOf(report.added) = {}
    /\ KeysOf(report.removed) \cap KeysOf(report.moved) = {}
    /\ KeysOf(report.added) \cap KeysOf(report.moved) = {}
    /\ Cardinality(KeysOf(report.removed)) = Len(report.removed)
    /\ Cardinality(KeysOf(report.added)) = Len(report.added)
    /\ Cardinality(KeysOf(report.moved)) = Len(report.moved)
    /\ KeysOf(report.removed) \cup KeysOf(report.added) \cup KeysOf(report.moved)
         \subseteq KeysOf(v1.variables) \cup KeysOf(v2.variables)

\* one key of each kind: removed, added, moved and unchanged
C16_Witness ==
  /\ IsSome(report)
  /\ Len(report.removed) = 1 /\ Len(report.added) = 1 /\ Len(report.moved) = 1
  /\ \E b \in Range(v2.variables) :
       /\ byKey(b) \in KeysOf(v1.variables)
       /\ SamePlace(Twin(v1.variables, b), b)

\* the positions of the changes of type t in the change list of the analysis
ChangesOfType(t) == {n \in 1..Len(analysis.changes) : analysis.changes[n].type = t}

\* the changes of type t are one per element of the list s, about that
\* element, and each of the given severity
OnePerElement(t, s, severity) ==
  /\ Cardinality(ChangesOfType(t)) = Len(s)
  /\ \A n \in ChangesOfType(t) : analysis.changes[n].severity = severity
  /\ \A i \in 1..Len(s) :
       \E n \in ChangesOfType(t) : analysis.changes[n].variable = s[i]

\* C17: the change list of analyze holds one change per collision
\* (collision, critical), one per moved variable (moved, critical), one per
\* removed variable (removed, warning), one per added variable (added,
\* safe), the typeChanged changes and nothing else; so the critical changes
\* number |collisions| + |moved| + |typeChanged| and the warnings |removed|.
C17_ChangeList ==
  IsSome(analysis) =>
    LET r == analysis.collisionReport
    IN /\ \A n \in 1..Len(analysis.changes) :
            analysis.changes[n].type \in
              {"collision", "moved", "removed", "added", "typeChanged"}
       /\ OnePerElement("collision", [i \in 1..Len(r.collisions) |-> r.collisions[i].v2],
                        "critical")
       /\ OnePerElement("moved", r.moved, "critical")
       /\ OnePerElement("removed", r.removed, "warning")
       /\ OnePerElement("added", r.added, "safe")
       /\ NumCritical = Len(r.collisions) + Len(r.moved)
                          + Cardinality(ChangesOfType("typeChanged"))
       /\ NumWarning = Len(r.removed)

\* a change of each of the five types
C17_Witness ==
  /\ IsSome(analysis)
  /\ \A t \in {"collision", "moved", "removed", "added", "typeChanged"} :
       ChangesOfType(t) # {}

\* the bytes of the slots of m that no variable of m uses
RECURSIVE UsedBytes(_, _)
UsedBytes(m, n) == IF n = 0 THEN 0 ELSE m.variables[n].size + UsedBytes(m, n - 1)

UnusedBytes(m) == 32 * m.totalSlots - UsedBytes(m, Len(m.variables))

\* C18: slotsAdded is v2.totalSlots - v1.totalSlots and bytesWasted is the
\* unused bytes of v2 less the unused bytes of v1, where the unused bytes of
\* a version are 32 * totalSlots less the sum of its sizes; both may be
\* negative.
C18_StorageGrowth ==
  IsSome(analysis) =>
    /\ analysis.storageGrowth.slotsAdded = v2.totalSlots - v1.totalSlots
    /\ analysis.storageGrowth.bytesWasted = UnusedBytes(v2) - UnusedBytes(v1)

\* a version with fewer slots and fewer unused bytes than the one before
C18_Witness ==
  /\ IsSome(analysis)
  /\ analysis.storageGrowth.slotsAdded < 0
  /\ analysis.storageGrowth.bytesWasted < 0
  /\ v2.totalSlots < v1.totalSlots

(***************************************************************************)
(* The overlap check on calculator output.                                 *)
(***************************************************************************)
\* C19: the overlap check of one mapping, which flags a slot with more than
\* one variable whose sizes sum to more than 32, returns no collision for
\* the mapping calculateSlots produces.
C19_NoSelfCollision ==
  IsSome(detected) => detected.collisions = <<>>

\* a slot two or more variables fill to its last byte, checked
C19_Witness ==
  /\ IsSome(detected) /\ IsSome(mapping)
  /\ \E s \in SlotsOf(mapping) : SlotCount(mapping, s) > 1 /\ SlotSum(mapping, s) = 32
  /\ detected.collisions = <<>>

(***************************************************************************)
(* Recommendations.                                                        *)
(***************************************************************************)
\* the efficiency of m2 is more than 10 percentage points below that of m1,
\* the efficiency of a version being 100 * used bytes / (32 * totalSlots);
\* a version without slots has no efficiency and nothing is below or above it
MoreThanTenBelow(m1, m2) ==
  /\ m1.totalSlots > 0 /\ m2.totalSlots > 0
  /\ 100 * UsedBytes(m2, Len(m2.variables)) * (32 * m1.totalSlots)
       < (100 * UsedBytes(m1, Len(m1.variables)) - 10 * (32 * m1.totalSlots))
           * (32 * m2.totalSlots)

C22_PackedFlag ==
  IsSome(mapping) =>
    /\ \A i \in Idx(mapping) :
         LET v == mapping.variables[i]
         IN ~v.packed <=> (v.offset = 0 /\ v.size = 32)
    /\ \A i \in Idx(mapping) :
         InSeq(mapping.variables[i].slot, mapping.packedSlots) =>
           mapping.variables[i].packed

\* a slot shared by two variables, the first at offset 0, and a variable
\* that fills a slot alone
C22_Witness ==
  /\ IsSome(mapping)
  /\ \E i, j \in Idx(mapping) :
       /\ mapping.variables[i].offset = 0
       /\ mapping.variables[i].packed
       /\ InSeq(mapping.variables[i].slot, mapping.packedSlots)
       /\ ~mapping.variables[j].packed

(***************************************************************************)
(* Type changes.                                                           *)
(***************************************************************************)
\* the collision report of the call made: that of compare, or the one
\* inside the analysis
ReportMade == IF IsSome(report) THEN report ELSE analysis.collisionReport

\* a change of the given type about the variable v is in the change list
HasChange(type, v) ==
  \E n \in ChangesOfType(type) : analysis.changes[n].variable = v

\* C23: when a variable keeps its name and changes its declared type,
\* compare has its v1 version in removed and its v2 version in added and
\* neither in moved, whether or not its slot or offset changed as well, and
\* analyze has the typeChanged change besides the removed and the added one.
C23_TypeChangeIsRemovedPlusAdded ==
  IsSome(report) \/ IsSome(analysis) =>
    \A a \in Range(v1.variables) : \A b \in Range(v2.variables) :
      a.name = b.name /\ a.type # b.type =>
        /\ InSeq(a, ReportMade.removed)
        /\ InSeq(b, ReportMade.added)
        /\ ~InSeq(a, ReportMade.moved) /\ ~InSeq(b, ReportMade.moved)
        /\ \A n \in 1..Len(ReportMade.moved) : ReportMade.moved[n].name # a.name
        /\ IsSome(analysis) =>
             /\ HasChange("removed", a)
             /\ HasChange("added", b)
             /\ \E n \in ChangesOfType("typeChanged") :
                  /\ analysis.changes[n].variable = b
                  /\ analysis.changes[n].oldVariable = <<a>>
             /\ ~HasChange("moved", b)

\* a variable retyped and moved to another slot, analysed
C23_Witness ==
  /\ IsSome(analysis)
  /\ \E a \in Range(v1.variables) : \E b \in Range(v2.variables) :
       /\ a.name = b.name /\ a.type # b.type /\ a.slot # b.slot
       /\ HasChange("typeChanged", b)
       /\ HasChange("removed", a)

\* the bytes of its slot that the variable v occupies
BytesOf(v) == v.offset..(v.offset + v.size - 1)

\* C24: in the mapping calculateSlots returns, each variable has
\* 0 <= offset <= 31, 1 <= size <= 32 and offset + size <= 32, and no two
\* variables occupy a common byte of the same slot.
C24_InsideSlotNoOverlap ==
  IsSome(mapping) =>
    /\ \A i \in Idx(mapping) :
         LET v == mapping.variables[i]
         IN /\ 0 <= v.offset /\ v.offset <= 31
            /\ 1 <= v.size /\ v.size <= 32
            /\ v.offset + v.size <= 32
    /\ \A i, j \in Idx(mapping) :
         i # j /\ mapping.variables[i].slot = mapping.variables[j].slot =>
           BytesOf(mapping.variables[i]) \cap BytesOf(mapping.variables[j]) = {}

\* two variables fill a slot to its last byte and another variable lies in
\* the middle of its slot
C24_Witness ==
  /\ IsSome(mapping)
  /\ \E i, j \in Idx(mapping) :
       /\ i < j
       /\ mapping.variables[i].slot = mapping.variables[j].slot
       /\ mapping.variables[j].offset + mapping.variables[j].size = 32
  /\ \E i \in Idx(mapping) :
       /\ mapping.variables[i].offset > 0
       /\ mapping.variables[i].offset + mapping.variables[i].size < 32

\* (slot, offset) of a is before that of b in the lexicographic order
PlacedBefore(a, b) == a.slot < b.slot \/ (a.slot = b.slot /\ a.offset < b.offset)

\* C25: in a mapping with variables that calculateSlots returns, the first
\* declared variable is at slot 0, offset 0, (slot, offset) strictly
\* increases in the lexicographic order along the declarations, and every
\* slot from 0 to totalSlots - 1 holds at least one variable.
C25_OrderedNoSkippedSlot ==
  IsSome(mapping) /\ mapping.variables # <<>> =>
    /\ mapping.variables[1].slot = 0 /\ mapping.variables[1].offset = 0
    /\ \A i \in Idx(mapping) :
         i > 1 => PlacedBefore(mapping.variables[i - 1], mapping.variables[i])
    /\ \A s \in 0..(mapping.totalSlots - 1) : SlotCount(mapping, s) >= 1

\* a variable that does not fit goes to the next slot, and the one after it
\* to the slot after that
C25_Witness ==
  /\ IsSome(mapping)
  /\ mapping.totalSlots = 3
  /\ \E i \in Idx(mapping) :
       /\ i > 1
       /\ mapping.variables[i].slot = mapping.variables[i - 1].slot + 1
       /\ mapping.variables[i - 1].offset + mapping.variables[i - 1].size < 32

(***************************************************************************)
(* Collisions.                                                             *)
(***************************************************************************)
\* C26: for two mappings with unique variable names, neither of which has
\* two variables that overlap, every collision compare reports pairs a
\* variable of v1 that is in removed with a variable of v2 that is in added;
\* so a comparison with an empty added or an empty removed list has no
\* collision.
C26_CollisionsPairRemovedWithAdded ==
  IsSome(report) /\ SelfOverlapFree(v1) /\ SelfOverlapFree(v2) =>
    /\ \A n \in 1..Len(report.collisions) :
         /\ InSeq(report.collisions[n].v1, v1.variables)
         /\ InSeq(report.collisions[n].v1, report.removed)
         /\ InSeq(report.collisions[n].v2, v2.variables)
         /\ InSeq(report.collisions[n].v2, report.added)
    /\ report.added = <<>> \/ report.removed = <<>> => report.collisions = <<>>

\* a collision between two layouts without overlap of their own, one of
\* which also moved a variable
C26_Witness ==
  /\ IsSome(report)
  /\ SelfOverlapFree(v1) /\ SelfOverlapFree(v2)
  /\ report.collisions # <<>>
  /\ report.moved # <<>>

\* C27: for two mappings A and B with unique keys, compare is symmetric
\* under the swap of its arguments: compare(A, B) and compare(B, A) have
\* the same safe, the keys added in one direction are the keys removed in
\* the other, the moved keys are the same and so is the number of
\* collisions.
C27_SwapSymmetric ==
  IsSome(report) /\ ~repeated =>
    LET back == compare(v2, v1)
    IN /\ report.safe = back.safe
       /\ KeysOf(report.added) = KeysOf(back.removed)
       /\ KeysOf(report.removed) = KeysOf(back.added)
       /\ KeysOf(report.moved) = KeysOf(back.moved)
       /\ Len(report.moved) = Len(back.moved)
       /\ Len(report.collisions) = Len(back.collisions)

\* a comparison with more added than removed variables, a moved variable
\* and a collision
C27_Witness ==
  /\ IsSome(report) /\ ~repeated
  /\ Len(report.added) > Len(report.removed)
  /\ report.moved # <<>>
  /\ report.collisions # <<>>

(***************************************************************************)
(* The verdict of compare and the compatibility of analyze.                *)
(***************************************************************************)
\* C28: for every pair of mappings, when the collision report inside the
\* analysis has safe = false, the level is critical and the score is at
\* most 60; a level of safe, caution or unsafe implies safe = true.
C28_UnsafeReportIsCritical ==
  IsSome(analysis) =>
    /\ ~analysis.collisionReport.safe =>
         /\ analysis.compatibility.level = "critical"
         /\ analysis.compatibility.score <= 60
    /\ analysis.compatibility.level \in {"safe", "caution", "unsafe"} =>
         analysis.collisionReport.safe

\* one moved variable and nothing else: score 60, level critical
C28_Witness ==
  /\ IsSome(analysis)
  /\ ~analysis.collisionReport.safe
  /\ Len(analysis.changes) = 1
  /\ analysis.changes[1].type = "moved"
  /\ analysis.compatibility.score = 60
  /\ analysis.compatibility.level = "critical"

\* v1 and v2 are the same list of variables except at position k, where the
\* variable keeps its name, slot and offset and has another declared type
RetypedInPlaceAt(k) ==
  /\ Len(v1.variables) = Len(v2.variables)
  /\ k \in Idx(v1)
  /\ \A i \in Idx(v1) : i # k => v1.variables[i] = v2.variables[i]
  /\ v1.variables[k].name = v2.variables[k].name
  /\ v1.variables[k].slot = v2.variables[k].slot
  /\ v1.variables[k].offset = v2.variables[k].offset
  /\ v1.variables[k].type # v2.variables[k].type

\* the analysis has four changes, a collision, a removed, an added and a
\* typeChanged one, all about the variable at position k; the score is 5,
\* the level critical and the report unsafe
FourChangesScoreFive(k) ==
  /\ Len(analysis.changes) = 4
  /\ \E n \in ChangesOfType("collision") :
       /\ analysis.changes[n].variable = v2.variables[k]
       /\ analysis.changes[n].oldVariable = <<v1.variables[k]>>
  /\ HasChange("removed", v1.variables[k])
  /\ HasChange("added", v2.variables[k])
  /\ HasChange("typeChanged", v2.variables[k])
  /\ analysis.compatibility.score = 5
  /\ analysis.compatibility.level = "critical"
  /\ ~analysis.collisionReport.safe

\* C29 as stated: if v1 and v2 are identical except that one variable keeps
\* its name, slot and offset and has another declared type whose bytes
\* overlap the old ones, analyze reports four changes for it (collision,
\* removed, added, typeChanged), the score is 5, the level critical and
\* collisionReport.safe is false.
C29_RetypedInPlace ==
  IsSome(analysis) =>
    \A k \in Idx(v1) : RetypedInPlaceAt(k) => FourChangesScoreFive(k)

\* C29 for layouts without overlap of their own: if neither v1 nor v2 has
\* two variables on a common byte and they are identical except for one
\* variable retyped in place, analyze reports the four changes for it and
\* nothing else, with score 5, level critical and safe = false.
C29_RetypedInPlaceNoSelfOverlap ==
  IsSome(analysis) /\ SelfOverlapFree(v1) /\ SelfOverlapFree(v2) =>
    \A k \in Idx(v1) : RetypedInPlaceAt(k) => FourChangesScoreFive(k)

\* the first of two variables retyped in place, the other unchanged
C29_Witness ==
  /\ IsSome(analysis)
  /\ SelfOverlapFree(v1) /\ SelfOverlapFree(v2)
  /\ Len(v1.variables) > 1
  /\ \E k \in Idx(v1) : RetypedInPlaceAt(k) /\ FourChangesScoreFive(k)

\* the variable v lies inside its slot
InsideSlot(v) == v.offset + v.size <= 32

\* C30: every collision compare reports between variables with
\* offset + size <= 32 has a byte range [lo, hi] with 0 <= lo <= hi <= 31,
\* lo the greater of the two offsets and hi the lesser of the two last
\* occupied bytes, so the range lies inside the bytes of both variables;
\* its slot is the slot of both.
C30_CollisionRange ==
  IsSome(report) =>
    \A n \in 1..Len(report.collisions) :
      LET c == report.collisions[n]
          lo == c.range[1]
          hi == c.range[2]
      IN InsideSlot(c.v1) /\ InsideSlot(c.v2) =>
           /\ 0 <= lo /\ lo <= hi /\ hi <= 31
           /\ lo >= c.v1.offset /\ lo >= c.v2.offset
           /\ lo \in {c.v1.offset, c.v2.offset}
           /\ hi <= c.v1.offset + c.v1.size - 1 /\ hi <= c.v2.offset + c.v2.size - 1
           /\ hi \in {c.v1.offset + c.v1.size - 1, c.v2.offset + c.v2.size - 1}
           /\ lo..hi \subseteq BytesOf(c.v1) \cap BytesOf(c.v2)
           /\ c.slot = c.v1.slot /\ c.slot = c.v2.slot

\* a collision on the upper half of a slot between a variable that fills
\* the slot and one that fills its upper half
C30_Witness ==
  /\ IsSome(report)
  /\ \E n \in 1..Len(report.collisions) :
       /\ InsideSlot(report.collisions[n].v1) /\ InsideSlot(report.collisions[n].v2)
       /\ report.collisions[n].range = <<16, 31>>
       /\ report.collisions[n].v1.offset # report.collisions[n].v2.offset

====
